---- MODULE Spec2Model ----
(***************************************************************************)
(* Model of the FetiiAI intent router (gpt_router.py): the process-wide    *)
(* result cache, the retry wrapper around the external model call and the  *)
(* interpretation of the model's response into a routing decision.         *)
(*                                                                         *)
(* Text is a sequence of strings.  A question is a sequence of one-        *)
(* character strings so that lower(), strip() and the cache key are        *)
(* computed character by character; other texts are one-fragment           *)
(* sequences.  Times are in tenths of a second, confidences in tenths.     *)
(***************************************************************************)
EXTENDS Integers, Sequences, FiniteSets, TLC

\* ------------------------------------------------------------------ bounds
\* route calls made in one behaviour of Spec
MaxCalls == 2
\* longest conversation history passed to route in Spec
MaxHistory == 1
\* longest question, in characters, in SpecKey
MaxQLen == 2
\* longest conversation history in SpecKey (two-digit lengths are reached)
MaxKeyTurns == 11
\* longest conversation history in SpecMsg (longer than the window of 6)
MaxTurns == 7

\* ------------------------------------------------------- program constants
max_retries == 3
base_delay == 6
JitterMax == 2
HistoryWindow == 6
ConfFunctionCall == 9
ConfNatural == 8
ConfError == 1

\* Python's None, for a field that otherwise holds a name
None == "None"
\* Python's None, for a field that otherwise holds a text
NoneText == <<"None">>
\* the empty string
EmptyText == <<>>

\* ------------------------------------------------------------ the catalog
\* keys of FUNCTION_REGISTRY, in insertion order
RegistryOrder ==
    << "top_dropoffs_by_age_group_and_day",
       "peak_hours_for_large_groups",
       "trips_to_specific_location",
       "age_distribution_at_location",
       "group_size_by_day_of_week",
       "least_busy_locations_by_day",
       "busiest_hours_by_location",
       "weekend_vs_weekday_patterns",
       "quietest_day_overall" >>

RegistryKeys == {RegistryOrder[i] : i \in 1..Len(RegistryOrder)}

\* parameter names of each entry's "signature", in declaration order
Signature(name) ==
    CASE name = "top_dropoffs_by_age_group_and_day" -> <<"age_group", "day", "top_k">>
      [] name = "peak_hours_for_large_groups" -> <<"min_group_size">>
      [] name = "trips_to_specific_location" -> <<"location_name">>
      [] name = "age_distribution_at_location" -> <<"location_name">>
      [] name = "group_size_by_day_of_week" -> <<>>
      [] name = "least_busy_locations_by_day" -> <<"day", "min_trips">>
      [] name = "busiest_hours_by_location" -> <<"location_name">>
      [] name = "weekend_vs_weekday_patterns" -> <<>>
      [] name = "quietest_day_overall" -> <<>>

\* each entry's "name" field
EntryName(key) ==
    CASE key = "top_dropoffs_by_age_group_and_day" -> "top_dropoffs_by_age_group_and_day"
      [] key = "peak_hours_for_large_groups" -> "peak_hours_for_large_groups"
      [] key = "trips_to_specific_location" -> "trips_to_specific_location"
      [] key = "age_distribution_at_location" -> "age_distribution_at_location"
      [] key = "group_size_by_day_of_week" -> "group_size_by_day_of_week"
      [] key = "least_busy_locations_by_day" -> "least_busy_locations_by_day"
      [] key = "busiest_hours_by_location" -> "busiest_hours_by_location"
      [] key = "weekend_vs_weekday_patterns" -> "weekend_vs_weekday_patterns"
      [] key = "quietest_day_overall" -> "quietest_day_overall"

\* mutant: an example invocation that names a parameter its entry lacks
ExampleParamsLocation(key) ==
    CASE key = "top_dropoffs_by_age_group_and_day" -> <<"age_group", "day">>
      [] key = "peak_hours_for_large_groups" -> <<"min_group_size">>
      [] key = "trips_to_specific_location" -> <<"location">>
      [] key = "age_distribution_at_location" -> <<"location_name">>
      [] key = "least_busy_locations_by_day" -> <<"day">>
      [] key = "busiest_hours_by_location" -> <<"location_name">>
      [] OTHER -> <<>>

\* keyword names written in each entry's "example_usage", in order
ExampleParams(key) ==
    CASE key = "top_dropoffs_by_age_group_and_day" -> <<"age_group", "day">>
      [] key = "peak_hours_for_large_groups" -> <<"min_group_size">>
      [] key = "trips_to_specific_location" -> <<"location_name">>
      [] key = "age_distribution_at_location" -> <<"location_name">>
      [] key = "least_busy_locations_by_day" -> <<"day">>
      [] key = "busiest_hours_by_location" -> <<"location_name">>
      [] OTHER -> <<>>

FUNCTION_REGISTRY ==
    [key \in RegistryKeys |->
        [name |-> EntryName(key), signature |-> Signature(key),
         example_usage |-> ExampleParams(key)]]

\* ------------------------------------------------------------ text helpers
Whitespace == {" ", "\t", "\n"}

\* str.lower() on one character of the modelled alphabet
LowerChar(c) ==
    CASE c = "A" -> "a"
      [] c = "B" -> "b"
      [] c = "F" -> "f"
      [] c = "H" -> "h"
      [] OTHER -> c

\* str.lower()
Lower(s) == [i \in 1..Len(s) |-> LowerChar(s[i])]

RECURSIVE LStrip(_)
LStrip(s) ==
    IF s # <<>> /\ Head(s) \in Whitespace THEN LStrip(Tail(s)) ELSE s

RECURSIVE RStrip(_)
RStrip(s) ==
    IF s # <<>> /\ s[Len(s)] \in Whitespace
    THEN RStrip(SubSeq(s, 1, Len(s) - 1))
    ELSE s

\* str.strip()
Strip(s) == RStrip(LStrip(s))

Digit(d) == <<"0", "1", "2", "3", "4", "5", "6", "7", "8", "9">>[d + 1]

\* str(n) of a non-negative int, as formatted by the f-string
RECURSIVE IntToStr(_)
IntToStr(n) ==
    IF n < 10 THEN <<Digit(n)>> ELSE IntToStr(n \div 10) \o <<Digit(n % 10)>>

\* user_question.lower().strip()
Normalize(q) == Strip(Lower(q))

\* mutant: the "_" between the question and the length is missing
CacheKeyNoSeparator(q, h) == Normalize(q) \o IntToStr(Len(h))

\* mutant: the key carries the questions of the history, not its length
CacheKeyByContent(q, h) ==
    Normalize(q) \o <<"_">> \o [i \in 1..Len(h) |-> h[i].user[1]]

\* f"{user_question.lower().strip()}_{len(conversation_history or [])}"
CacheKey(q, h) == Normalize(q) \o <<"_">> \o IntToStr(Len(h))

\* --------------------------------------------------------------- inputs
\* questions put to route in Spec: Q_Hi and Q_hi normalise to the same text
Q_Hi == <<"H", "i">>
Q_hi == <<" ", "h", "i", " ">>
Questions == {Q_Hi, Q_hi}

\* a history entry: the app appends (user_input, response_text) tuples;
\* isPair is the router's test isinstance(entry, tuple) and len(entry) == 2
Turn1 == [isPair |-> TRUE, user |-> <<"Where do young people go?">>,
          assistant |-> <<"Which day are you curious about?">>]
Turn2 == [isPair |-> TRUE, user |-> <<"hello">>, assistant |-> <<"Hi there!">>]
BadEntry == [isPair |-> FALSE, user |-> <<"stray entry">>, assistant |-> EmptyText]

Turns == {Turn1, Turn2}
Entries == {Turn1, Turn2, BadEntry}

SeqsUpTo(S, n) == UNION {[1..k -> S] : k \in 0..n}

\* exceptions the external call raises, by their str(e)
Errors == {"Request timed out.", "Rate limit reached."}
\* str(e) of the IndexError raised by response.choices[0] on an empty list
IndexErrorText == "list index out of range"

\* jitter of one backoff sleep, random.uniform(0, 0.2), in tenths of a second:
\* its two extremes
Jitters == {0, JitterMax}

\* ------------------------------------------------- the external response
\* texts of message.function_call.arguments the model returns
ArgsObject == "{\"age_group\": \"18-24\", \"day\": \"Friday\"}"
ArgsEmpty == "{}"
ArgsArray == "[1, 2]"
ArgsBroken == "{\"day\": "
Payloads == {ArgsObject, ArgsEmpty, ArgsArray, ArgsBroken}

\* a parsed JSON value
JsonDict(members) == [json |-> "object", members |-> members]
\* the literal {}
EmptyDict == JsonDict({})

\* names bound by a parsed JSON value used as keyword arguments
ArgNames(args) == {m[1] : m \in args.members}

\* json.loads: ok is FALSE when it raises
JsonLoads(text) ==
    CASE text = ArgsObject ->
           [ok |-> TRUE, value |-> JsonDict({<<"age_group", "18-24">>, <<"day", "Friday">>})]
      [] text = ArgsEmpty -> [ok |-> TRUE, value |-> EmptyDict]
      [] text = ArgsArray ->
           [ok |-> TRUE, value |-> [json |-> "array", members |-> {<<"0", "1">>, <<"1", "2">>}]]
      [] OTHER -> [ok |-> FALSE, value |-> EmptyDict]

\* function names the model nominates: a catalog entry and a name outside it
KnownName == "top_dropoffs_by_age_group_and_day"
UnknownName == "book_a_ride"
ModelNames == {KnownName, UnknownName}

Reply == <<"Hello! Ask me about Austin rides.">>
\* message.content: None, "" or a reply
Contents == {NoneText, EmptyText, Reply}

\* no response received yet
NoResponse == [received |-> FALSE]

\* a response whose choices list is empty
NoChoices ==
    [has_choice |-> FALSE, function_call |-> FALSE, name |-> None,
     arguments |-> "", content |-> NoneText]

FreeText(c) ==
    [has_choice |-> TRUE, function_call |-> FALSE, name |-> None,
     arguments |-> "", content |-> c]

Selected(n, a, c) ==
    [has_choice |-> TRUE, function_call |-> TRUE, name |-> n,
     arguments |-> a, content |-> c]

\* what the external call returns when it does not raise
Responses ==
    {NoChoices}
      \cup {FreeText(c) : c \in Contents}
      \cup {Selected(KnownName, a, NoneText) : a \in Payloads}
      \cup {Selected(UnknownName, a, c) : a \in {ArgsObject, ArgsBroken}, c \in {NoneText, Reply}}

\* ------------------------------------------------------------ decisions
NoDecision == [none |-> TRUE]

DecisionFields ==
    {"type", "function", "parameters", "thought", "confidence", "response", "suggestions"}

ErrorSuggestions ==
    << "Try rephrasing your question",
       "Ask about a different day or location",
       "Ask about busiest times or quietest days" >>

FunctionSuggestions ==
    << "What about other days?",
       "How about different age groups?",
       "What are the busiest times?" >>

NaturalSuggestions ==
    << "What are the most popular dropoff locations?",
       "When do large groups ride most?",
       "What's the age distribution of riders?" >>

Greeting == <<"I'm here to help you analyze Fetii rideshare data! What would you like to know?">>
Unavailable == <<"I'm temporarily unavailable. Please set the API key and try again.">>
Apology == <<"Sorry, I'm having trouble processing that right now. Please try again in a moment.">>

\* a formatted rationale: the f-string's template and what it interpolates
Thought(template, question, detail) ==
    [template |-> template, question |-> question, detail |-> detail]

NoClientThought == Thought("OPENAI client not initialized (missing API key)", EmptyText, "")
RouterErrorThought(e) == Thought("GPT Router v3 Error: {e}", EmptyText, e)

_structured_error(message, user_fallback) ==
    [type |-> "natural_response",
     function |-> None,
     parameters |-> EmptyDict,
     thought |-> message,
     confidence |-> ConfError,
     response |-> user_fallback,
     suggestions |-> ErrorSuggestions]

\* mutant: only None counts as no reply ("is not None" for "or")
TruthyUnlessNone(text) == text # NoneText

\* Python truthiness of message.content
Truthy(text) == text # NoneText /\ text # EmptyText

\* mutant: the function_call decision carries the conversational confidence
FunctionCallDecisionConf8(q, func_name, func_args) ==
    [type |-> "function_call",
     function |-> func_name,
     parameters |-> func_args,
     thought |-> Thought("User asked: '{q}'. I'm calling {f} to analyze this data.", q, func_name),
     confidence |-> ConfNatural,
     response |-> <<"Let me analyze that for you using ", func_name, "!">>,
     suggestions |-> FunctionSuggestions]

\* the function_call decision of lines 167-179
FunctionCallDecision(q, func_name, func_args) ==
    [type |-> "function_call",
     function |-> func_name,
     parameters |-> func_args,
     thought |-> Thought("User asked: '{q}'. I'm calling {f} to analyze this data.", q, func_name),
     confidence |-> ConfFunctionCall,
     response |-> <<"Let me analyze that for you using ", func_name, "!">>,
     suggestions |-> FunctionSuggestions]

\* the natural_response decision of lines 184-196
NaturalDecision(q, content) ==
    [type |-> "natural_response",
     function |-> None,
     parameters |-> EmptyDict,
     thought |-> Thought("User asked: '{q}'. This doesn't require specific data analysis.", q, ""),
     confidence |-> ConfNatural,
     response |-> IF Truthy(content) THEN content ELSE Greeting,
     suggestions |-> NaturalSuggestions]

\* mutant: unparseable arguments become None
ParseArgsNull(text) ==
    IF JsonLoads(text).ok THEN JsonLoads(text).value
    ELSE [json |-> "null", members |-> {}]

\* json.loads(arguments) with its except: func_args = {}
ParseArgs(text) == IF JsonLoads(text).ok THEN JsonLoads(text).value ELSE EmptyDict

\* mutant: the membership test of line 166 is missing
InterpretNoGuard(q, message) ==
    IF message.function_call
    THEN FunctionCallDecision(q, message.name, ParseArgs(message.arguments))
    ELSE NaturalDecision(q, message.content)

\* lines 155-198 for a response with a choice: the decision built from the message
Interpret(q, message) ==
    IF message.function_call /\ message.name \in DOMAIN FUNCTION_REGISTRY
    THEN FunctionCallDecision(q, message.name, ParseArgs(message.arguments))
    ELSE NaturalDecision(q, message.content)

\* ---------------------------------------------------- the capability schema
\* the text of each parameter's entry in "signature", character by character
\* (the en dashes of the age groups written as hyphens)
SignatureText(key, param) ==
    CASE key = "top_dropoffs_by_age_group_and_day" /\ param = "age_group" ->
        << "s", "t", "r", " ", "(", "r", "e", "q", "u", "i", "r", "e", "d", ")",
        " ", "-", " ", "A", "g", "e", " ", "g", "r", "o", "u", "p", " ", "l",
        "i", "k", "e", " ", "'", "1", "8", "-", "2", "4", "'", ",", " ", "'",
        "2", "5", "-", "3", "4", "'", ",", " ", "'", "3", "5", "-", "4", "4",
        "'", ",", " ", "'", "4", "5", "-", "5", "4", "'", ",", " ", "'", "5",
        "5", "+", "'" >>
      [] key = "top_dropoffs_by_age_group_and_day" /\ param = "day" ->
        << "s", "t", "r", " ", "(", "o", "p", "t", "i", "o", "n", "a", "l", ")",
        " ", "-", " ", "D", "a", "y", " ", "o", "f", " ", "w", "e", "e", "k",
        " ", "l", "i", "k", "e", " ", "'", "M", "o", "n", "d", "a", "y", "'",
        ",", " ", "'", "T", "u", "e", "s", "d", "a", "y", "'", ",", " ", "'",
        "W", "e", "d", "n", "e", "s", "d", "a", "y", "'", ",", " ", "'", "T",
        "h", "u", "r", "s", "d", "a", "y", "'", ",", " ", "'", "F", "r", "i",
        "d", "a", "y", "'", ",", " ", "'", "S", "a", "t", "u", "r", "d", "a",
        "y", "'", ",", " ", "'", "S", "u", "n", "d", "a", "y", "'" >>
      [] key = "top_dropoffs_by_age_group_and_day" /\ param = "top_k" ->
        << "i", "n", "t", " ", "(", "o", "p", "t", "i", "o", "n", "a", "l", ",",
        " ", "d", "e", "f", "a", "u", "l", "t", "=", "5", ")", " ", "-", " ",
        "N", "u", "m", "b", "e", "r", " ", "o", "f", " ", "t", "o", "p", " ",
        "l", "o", "c", "a", "t", "i", "o", "n", "s", " ", "t", "o", " ", "r",
        "e", "t", "u", "r", "n" >>
      [] key = "peak_hours_for_large_groups" /\ param = "min_group_size" ->
        << "i", "n", "t", " ", "(", "r", "e", "q", "u", "i", "r", "e", "d", ")",
        " ", "-", " ", "M", "i", "n", "i", "m", "u", "m", " ", "g", "r", "o",
        "u", "p", " ", "s", "i", "z", "e", " ", "t", "o", " ", "a", "n", "a",
        "l", "y", "z", "e", " ", "(", "e", ".", "g", ".", ",", " ", "6", " ",
        "f", "o", "r", " ", "g", "r", "o", "u", "p", "s", " ", "o", "f", " ",
        "6", "+", " ", "p", "e", "o", "p", "l", "e", ")" >>
      [] key = "trips_to_specific_location" /\ param = "location_name" ->
        << "s", "t", "r", " ", "(", "r", "e", "q", "u", "i", "r", "e", "d", ")",
        " ", "-", " ", "N", "a", "m", "e", " ", "o", "r", " ", "p", "a", "r",
        "t", " ", "o", "f", " ", "l", "o", "c", "a", "t", "i", "o", "n", " ",
        "n", "a", "m", "e", " ", "t", "o", " ", "s", "e", "a", "r", "c", "h",
        " ", "f", "o", "r", " ", "(", "e", ".", "g", ".", ",", " ", "'", "M",
        "o", "o", "d", "y", "'", ",", " ", "'", "D", "o", "m", "a", "i", "n",
        "'", ",", " ", "'", "R", "a", "i", "n", "e", "y", "'", ")" >>
      [] key = "age_distribution_at_location" /\ param = "location_name" ->
        << "s", "t", "r", " ", "(", "r", "e", "q", "u", "i", "r", "e", "d", ")",
        " ", "-", " ", "N", "a", "m", "e", " ", "o", "r", " ", "p", "a", "r",
        "t", " ", "o", "f", " ", "l", "o", "c", "a", "t", "i", "o", "n", " ",
        "n", "a", "m", "e", " ", "t", "o", " ", "a", "n", "a", "l", "y", "z",
        "e" >>
      [] key = "least_busy_locations_by_day" /\ param = "day" ->
        << "s", "t", "r", " ", "(", "r", "e", "q", "u", "i", "r", "e", "d", ")",
        " ", "-", " ", "D", "a", "y", " ", "o", "f", " ", "w", "e", "e", "k",
        " ", "t", "o", " ", "a", "n", "a", "l", "y", "z", "e" >>
      [] key = "least_busy_locations_by_day" /\ param = "min_trips" ->
        << "i", "n", "t", " ", "(", "o", "p", "t", "i", "o", "n", "a", "l", ",",
        " ", "d", "e", "f", "a", "u", "l", "t", "=", "5", ")", " ", "-", " ",
        "M", "i", "n", "i", "m", "u", "m", " ", "n", "u", "m", "b", "e", "r",
        " ", "o", "f", " ", "t", "r", "i", "p", "s", " ", "t", "o", " ", "c",
        "o", "n", "s", "i", "d", "e", "r", " ", "a", " ", "l", "o", "c", "a",
        "t", "i", "o", "n" >>
      [] key = "busiest_hours_by_location" /\ param = "location_name" ->
        << "s", "t", "r", " ", "(", "r", "e", "q", "u", "i", "r", "e", "d", ")",
        " ", "-", " ", "N", "a", "m", "e", " ", "o", "r", " ", "p", "a", "r",
        "t", " ", "o", "f", " ", "l", "o", "c", "a", "t", "i", "o", "n", " ",
        "n", "a", "m", "e", " ", "t", "o", " ", "a", "n", "a", "l", "y", "z",
        "e" >>

\* each entry's "description"
EntryDescription(key) ==
    CASE key = "top_dropoffs_by_age_group_and_day" ->
        "Analyzes where riders of a certain age group go most frequently on a given day. Useful for understanding demographic preferences and popular destinations."
      [] key = "peak_hours_for_large_groups" ->
        "Shows hourly patterns of when groups of a certain size or larger tend to ride. Useful for understanding group behavior patterns and peak demand times."
      [] key = "trips_to_specific_location" ->
        "Tracks how many trips were made to locations containing a specific name. Shows trends over time for popular venues."
      [] key = "age_distribution_at_location" ->
        "Analyzes what age groups visit a particular venue most frequently. Useful for understanding venue demographics and target audiences."
      [] key = "group_size_by_day_of_week" ->
        "Shows how group sizes vary throughout the week. Useful for understanding when people travel in larger vs smaller groups."
      [] key = "least_busy_locations_by_day" ->
        "Identifies locations that receive fewer trips on a given day, useful for finding quieter spots or avoiding crowds."
      [] key = "busiest_hours_by_location" ->
        "Shows when a particular venue is most crowded throughout the day. Useful for timing visits to avoid or find peak times."
      [] key = "weekend_vs_weekday_patterns" ->
        "Analyzes differences in trip patterns, popular destinations, and group sizes between weekend and weekday usage."
      [] key = "quietest_day_overall" ->
        "Aggregates trips by day of week and surfaces the day with the fewest rides, along with a ranked list."

\* "sub in text" for strings
Contains(text, sub) ==
    \E i \in 1..(Len(text) - Len(sub) + 1) : SubSeq(text, i, i + Len(sub) - 1) = sub

\* lines 31-36: the JSON type read off a parameter's description
ParamType(desc) ==
    IF Contains(desc, <<"s", "t", "r">>) THEN "string"
    ELSE IF Contains(desc, <<"i", "n", "t">>) THEN "integer"
    ELSE "string"

\* lines 24-51: the definition built for one catalog entry; every parameter
\* of the signature is appended to "required"
FunctionDef(key) ==
    [name |-> key,
     description |-> EntryDescription(key),
     parameters |->
        [type |-> "object",
         properties |->
            [p \in {Signature(key)[i] : i \in 1..Len(Signature(key))} |->
                [type |-> ParamType(SignatureText(key, p)),
                 description |-> SignatureText(key, p)]],
         required |-> Signature(key)]]

\* get_openai_functions: one definition per entry, in the order of the dict
get_openai_functions == [i \in 1..Len(RegistryOrder) |-> FunctionDef(RegistryOrder[i])]

\* ------------------------------------------------------------- the request
SystemPrompt == <<"You are Assistentee, a friendly and intelligent rideshare data assistant for Austin, Texas. ...">>

Msg(role, content) == [role |-> role, content |-> content]

\* mutant: the first six entries, conversation_history[:6]
FirstEntries(h) ==
    IF Len(h) <= HistoryWindow THEN h ELSE SubSeq(h, 1, HistoryWindow)

\* conversation_history[-6:]
LastEntries(h) ==
    IF Len(h) <= HistoryWindow THEN h ELSE SubSeq(h, Len(h) - HistoryWindow + 1, Len(h))

\* the loop of lines 136-139 over the windowed entries
RECURSIVE ExpandEntries(_)
ExpandEntries(es) ==
    IF es = <<>> THEN <<>>
    ELSE (IF Head(es).isPair
          THEN <<Msg("user", Head(es).user), Msg("assistant", Head(es).assistant)>>
          ELSE <<>>) \o ExpandEntries(Tail(es))

\* lines 113-142: system instruction, windowed history, current question
BuildMessages(q, h) ==
    <<Msg("system", SystemPrompt)>> \o ExpandEntries(LastEntries(h)) \o <<Msg("user", q)>>

\* ---------------------------------------------------------------- state
VARIABLES
    client,                 \* TRUE when the module-level OpenAI client was built
    _route_cache,           \* the process-wide dict: cache key -> decision
    pc,                     \* "idle", "calling" (inside _retry_call), "returned"
    user_question,          \* argument of the current route call
    conversation_history,   \* argument of the current route call
    cache_key,              \* local of the current call
    messages,               \* request built by the current call
    attempt,                \* loop variable of _retry_call
    last_err,               \* last_err of _retry_call
    response,               \* what _retry_call returned
    sleeps,                 \* time.sleep calls of the current call, in order
    call_log,               \* outcome of each external call of the current call
    result,                 \* what the current call returned
    raised,                 \* exception that left the current call, or None
    ncalls,                 \* route calls started so far
    registry,               \* the module-level FUNCTION_REGISTRY dict
    functions,              \* the functions argument of the request BuildRequest builds
    history,                \* st.session_state.history
    user_input,             \* st.session_state.user_input
    rerun,                  \* TRUE after st.rerun(): the script runs again at once
    event,                  \* widget interaction that started the last script run
    response_text,          \* response_text of the last processed interaction
    df_out,                 \* df_out of the last processed interaction
    logged,                 \* arguments of the last log_event call
    telemetry,              \* the telemetry.csv file
    submitted,              \* questions submitted so far
    runs,                   \* script runs so far
    span_keys,              \* cache keys route computed for this session since
                            \* st.session_state.history was last emptied
    callers,                \* route calls of concurrent sessions, by caller
    clock                   \* steps taken by the concurrent callers

\* the session, the telemetry file and the locals of a script run
appVars ==
    << history, user_input, rerun, event, response_text, df_out, logged,
       telemetry, submitted, runs, span_keys >>

\* the call frames of concurrent callers
raceVars == <<callers, clock>>

vars ==
    << client, _route_cache, pc, user_question, conversation_history, cache_key,
       messages, attempt, last_err, response, sleeps, call_log, result, raised,
       ncalls, registry, functions, appVars, raceVars >>

\* df_out = None
NoTable == [none |-> TRUE]

\* no log_event call yet
NotLogged == [none |-> TRUE]

\* telemetry.csv does not exist
NoFile == [exists |-> FALSE, rows |-> <<>>]

\* sessions that call route concurrently
Callers == {"A", "B"}

\* a caller that has not called route
IdleCaller ==
    [pc |-> "idle", question |-> EmptyText, history |-> <<>>, key |-> EmptyText,
     result |-> NoDecision, external |-> 0, began |-> 0, ended |-> 0]

\* before the first script run of a session
AppIdle ==
    /\ callers = [t \in Callers |-> IdleCaller]
    /\ clock = 0
    /\ registry = FUNCTION_REGISTRY
    /\ functions = <<>>
    /\ history = <<>>
    /\ user_input = None
    /\ rerun = FALSE
    /\ event = "start"
    /\ response_text = EmptyText
    /\ df_out = NoTable
    /\ logged = NotLogged
    /\ telemetry = NoFile
    /\ submitted = 0
    /\ runs = 0
    /\ span_keys = {}

EmptyCache == [k \in {} |-> NoDecision]

\* mutant: the store is lost
CachePutNothing(cache, key, decision) == cache

\* mutant: the store starts the dict afresh
CachePutAlone(cache, key, decision) == [k \in {key} |-> decision]

\* _route_cache[cache_key] = decision
CachePut(cache, key, decision) ==
    [k \in DOMAIN cache \cup {key} |-> IF k = key THEN decision ELSE cache[k]]

\* mutant: the exponent is one too large
BackoffDelayFromTwo(n) == base_delay * 2^(n + 1)

\* deterministic part of the backoff delay: base_delay * (2 ** attempt)
BackoffDelay(n) == base_delay * 2^n

\* mutant: the handler catches the API's errors only
HandlesApiErrorsOnly(e) == e \in Errors

\* "except Exception as e" of line 200 catches every exception raised in the try
Handles(e) == TRUE

\* mutant: the client check is missing
ClientMissingIgnored == FALSE

\* "if not client" of line 96
ClientMissing == ~client

\* locals of a call before it runs
FreshCall ==
    /\ attempt' = 0
    /\ last_err' = None
    /\ response' = NoResponse
    /\ sleeps' = <<>>
    /\ call_log' = <<>>
    /\ raised' = None

Init ==
    /\ client \in BOOLEAN
    /\ _route_cache = EmptyCache
    /\ pc = "idle"
    /\ user_question = EmptyText
    /\ conversation_history = <<>>
    /\ cache_key = EmptyText
    /\ messages = <<>>
    /\ attempt = 0
    /\ last_err = None
    /\ response = NoResponse
    /\ sleeps = <<>>
    /\ call_log = <<>>
    /\ result = NoDecision
    /\ raised = None
    /\ ncalls = 0
    /\ AppIdle

\* mutant: the failure decision is returned but not stored
FailNotCached(e) ==
    /\ pc' = "returned"
    /\ result' = _structured_error(RouterErrorThought(e), Apology)
    /\ _route_cache' = _route_cache
    /\ raised' = None

\* an exception e raised inside the try of lines 108-198
Fail(e) ==
    /\ pc' = "returned"
    /\ IF Handles(e)
       THEN /\ result' = _structured_error(RouterErrorThought(e), Apology)
            /\ _route_cache' = CachePut(_route_cache, cache_key, result')
            /\ raised' = None
       ELSE /\ result' = NoDecision
            /\ _route_cache' = _route_cache
            /\ raised' = e

\* mutant: the cache lookup comes first, the client check after it
RouteCacheFirst(q, h) ==
    /\ pc \in {"idle", "returned"}
    /\ ncalls < MaxCalls
    /\ ncalls' = ncalls + 1
    /\ user_question' = q
    /\ conversation_history' = h
    /\ FreshCall
    /\ UNCHANGED <<client, _route_cache, registry, functions, appVars, raceVars>>
    /\ cache_key' = CacheKey(q, h)
    /\ IF cache_key' \in DOMAIN _route_cache
       THEN /\ result' = _route_cache[cache_key']
            /\ messages' = <<>>
            /\ pc' = "returned"
       ELSE IF ClientMissing
            THEN /\ result' = _structured_error(NoClientThought, Unavailable)
                 /\ messages' = <<>>
                 /\ pc' = "returned"
            ELSE /\ result' = NoDecision
                 /\ messages' = BuildMessages(q, h)
                 /\ pc' = "calling"

\* enhanced_gpt_route_v3 up to the external call: the client check, the cache
\* lookup and the construction of the request
Route(q, h) ==
    /\ pc \in {"idle", "returned"}
    /\ ncalls < MaxCalls
    /\ ncalls' = ncalls + 1
    /\ user_question' = q
    /\ conversation_history' = h
    /\ FreshCall
    /\ UNCHANGED <<client, _route_cache, registry, functions, appVars, raceVars>>
    /\ IF ClientMissing
       THEN /\ result' = _structured_error(NoClientThought, Unavailable)
            /\ cache_key' = EmptyText
            /\ messages' = <<>>
            /\ pc' = "returned"
       ELSE /\ cache_key' = CacheKey(q, h)
            /\ IF cache_key' \in DOMAIN _route_cache
               THEN /\ result' = _route_cache[cache_key']
                    /\ messages' = <<>>
                    /\ pc' = "returned"
               ELSE /\ result' = NoDecision
                    /\ messages' = BuildMessages(q, h)
                    /\ pc' = "calling"

\* mutant: the loop has no bound ("while True")
MoreAttemptsAlways(n) == TRUE

\* "for attempt in range(max_retries)": attempt n is made
MoreAttempts(n) == n < max_retries

\* one attempt of _retry_call on which the external call raises e: the sleep
\* that follows it, and after the last attempt the raise of last_err into the
\* handler of line 200
CallRaises(e, jitter) ==
    /\ pc = "calling"
    /\ call_log' = Append(call_log, e)
    /\ last_err' = e
    /\ sleeps' = Append(sleeps, [det |-> BackoffDelay(attempt), jitter |-> jitter])
    /\ attempt' = attempt + 1
    /\ UNCHANGED <<client, user_question, conversation_history, cache_key,
                   messages, response, ncalls, registry, functions, appVars, raceVars>>
    /\ IF MoreAttempts(attempt')
       THEN /\ pc' = "calling"
            /\ UNCHANGED <<_route_cache, result, raised>>
       ELSE Fail(last_err')

\* the attempt of _retry_call on which the external call returns r, and the
\* interpretation of r (lines 155-198)
CallReturns(r) ==
    /\ pc = "calling"
    /\ call_log' = Append(call_log, "ok")
    /\ response' = r
    /\ UNCHANGED <<client, user_question, conversation_history, cache_key,
                   messages, attempt, last_err, sleeps, ncalls, registry, functions, appVars, raceVars>>
    /\ IF ~r.has_choice
       THEN Fail(IndexErrorText)
       ELSE /\ result' = Interpret(user_question, r)
            /\ _route_cache' = CachePut(_route_cache, cache_key, result')
            /\ raised' = None
            /\ pc' = "returned"

Next ==
    \/ \E q \in Questions, h \in SeqsUpTo(Turns, MaxHistory) : Route(q, h)
    \/ \E e \in Errors, jitter \in Jitters : CallRaises(e, jitter)
    \/ \E r \in Responses : CallReturns(r)

Spec == Init /\ [][Next]_vars

\* an external call in flight ends: it raises or it returns
ExternalCallEnds ==
    \/ \E e \in Errors, jitter \in Jitters : CallRaises(e, jitter)
    \/ \E r \in Responses : CallReturns(r)

\* route calls for one question, with histories of one kind of turn
NextLive ==
    \/ \E h \in SeqsUpTo({Turn1}, MaxHistory) : Route(Q_Hi, h)
    \/ ExternalCallEnds

\* sequential route calls none of whose external calls hangs for ever
\* (timeout=30 of line 150)
SpecLive == Init /\ [][NextLive]_vars /\ WF_vars(ExternalCallEnds)

\* ------------------------------------------------ the cache key on its own
\* characters of the questions whose keys SpecKey computes
KeyAlphabet == {"A", "a", " ", "_", "1"}

\* a history of n turns
HistoryOfLen(n) == [i \in 1..n |-> Turn1]

InitKey ==
    /\ client = TRUE
    /\ _route_cache = EmptyCache
    /\ pc = "idle"
    /\ user_question \in SeqsUpTo(KeyAlphabet, MaxQLen)
    /\ conversation_history \in {HistoryOfLen(n) : n \in 0..MaxKeyTurns}
    /\ cache_key = EmptyText
    /\ messages = <<>>
    /\ attempt = 0
    /\ last_err = None
    /\ response = NoResponse
    /\ sleeps = <<>>
    /\ call_log = <<>>
    /\ result = NoDecision
    /\ raised = None
    /\ ncalls = 0
    /\ AppIdle

\* line 104
ComputeKey ==
    /\ pc = "idle"
    /\ pc' = "keyed"
    /\ cache_key' = CacheKey(user_question, conversation_history)
    /\ UNCHANGED <<client, _route_cache, user_question, conversation_history,
                   messages, attempt, last_err, response, sleeps, call_log,
                   result, raised, ncalls, registry, functions, appVars, raceVars>>

SpecKey == InitKey /\ [][ComputeKey]_vars

\* ---------------------------------------------- the request on its own
InitMsg ==
    /\ client = TRUE
    /\ _route_cache = EmptyCache
    /\ pc = "idle"
    /\ user_question \in Questions
    /\ conversation_history \in SeqsUpTo(Entries, MaxTurns)
    /\ cache_key = EmptyText
    /\ messages = <<>>
    /\ attempt = 0
    /\ last_err = None
    /\ response = NoResponse
    /\ sleeps = <<>>
    /\ call_log = <<>>
    /\ result = NoDecision
    /\ raised = None
    /\ ncalls = 0
    /\ AppIdle

\* lines 109-142: the capability schema and the messages of the request
BuildRequest ==
    /\ pc = "idle"
    /\ pc' = "built"
    /\ messages' = BuildMessages(user_question, conversation_history)
    /\ functions' = get_openai_functions
    /\ UNCHANGED <<client, _route_cache, user_question, conversation_history,
                   cache_key, attempt, last_err, response, sleeps, call_log,
                   result, raised, ncalls, registry, appVars, raceVars>>

SpecMsg == InitMsg /\ [][BuildRequest]_vars

\* ------------------------------------------------------- the dispatcher
\* script runs of one session
MaxRuns == 4

\* len(df_out) of a result table that has rows
SampleRows == 3
\* "if len(df_out) < 20": tables below this length are shown inline
InlineLimit == 20

\* names tested by the if/elif chain of lines 460-477
DispatchNames ==
    {"top_dropoffs_by_age_group_and_day", "peak_hours_for_large_groups",
     "trips_to_specific_location", "age_distribution_at_location",
     "group_size_by_day_of_week", "least_busy_locations_by_day",
     "busiest_hours_by_location", "weekend_vs_weekday_patterns",
     "quietest_day_overall"}

\* keys of FUNCTION_IMPLEMENTATIONS
ImplementationKeys ==
    {"top_dropoffs_by_age_group_and_day", "peak_hours_for_large_groups",
     "trips_to_specific_location", "age_distribution_at_location",
     "group_size_by_day_of_week", "least_busy_locations_by_day",
     "busiest_hours_by_location", "weekend_vs_weekday_patterns",
     "quietest_day_overall"}

\* mutant: every branch of the chain passes **params
SplatsParamsAlways == DispatchNames

\* branches of the chain that call f(df, **params); the others call f(df)
SplatsParams ==
    {"top_dropoffs_by_age_group_and_day", "peak_hours_for_large_groups",
     "trips_to_specific_location", "age_distribution_at_location",
     "least_busy_locations_by_day", "busiest_hours_by_location"}

\* keyword parameters of each analytical function, df aside
Parameters(func) ==
    CASE func = "top_dropoffs_by_age_group_and_day" -> {"age_group", "day", "top_k"}
      [] func = "peak_hours_for_large_groups" -> {"min_group_size"}
      [] func = "trips_to_specific_location" -> {"location_name"}
      [] func = "age_distribution_at_location" -> {"location_name"}
      [] func = "least_busy_locations_by_day" -> {"day", "min_trips"}
      [] func = "busiest_hours_by_location" -> {"location_name"}
      [] OTHER -> {}

\* those of them that have no default value
Mandatory(func) ==
    CASE func = "top_dropoffs_by_age_group_and_day" -> {"age_group"}
      [] func = "trips_to_specific_location" -> {"location_name"}
      [] func = "age_distribution_at_location" -> {"location_name"}
      [] func = "least_busy_locations_by_day" -> {"day"}
      [] func = "busiest_hours_by_location" -> {"location_name"}
      [] OTHER -> {}

\* the TypeError of f(df, **params), or None when the call binds
BindError(func, params) ==
    IF params.json # "object" THEN "argument after ** must be a mapping"
    ELSE IF ~(ArgNames(params) \subseteq Parameters(func))
         THEN "got an unexpected keyword argument"
    ELSE IF ~(Mandatory(func) \subseteq ArgNames(params))
         THEN "missing 1 required positional argument"
    ELSE None

\* what an analytical function does once called: a table with rows, an
\* empty table, or an exception raised on a value it cannot handle
Analyses == {"rows", "empty", "raise"}
ValueErrorText == "Unknown format code"

Table(n) == [none |-> FALSE, len |-> n]

\* the cross-mark character U+274C
ErrorMark == "U+274C"
\* the f-string of line 506: the mark, " Error occurred: ", str(e)
ErrorText(e) == <<ErrorMark, " Error occurred: ", e>>

\* the mark occurs in response_text
HasErrorMark(text) == \E i \in 1..Len(text) : text[i] = ErrorMark

NoResults == <<"No results found for that query. Try changing the day, age group, or location.">>
CouldNotRoute == <<"I couldn't route that to a specific analysis, but I'm here to help!">>
\* f"**{summary}**" and the inline table of lines 481-485
SummaryText(n) ==
    <<"**", "Here's what I found in the data:", "**">>
        \o (IF n < InlineLimit THEN <<"\n\n", "<table>">> ELSE <<>>)

\* Python truthiness of a string: "pre_response or ..."
OrElse(text, fallback) == IF text # EmptyText /\ text # NoneText THEN text ELSE fallback

\* lines 450-506: response_text and df_out for a decision, given what the
\* analytical function does when it is called
Dispatch(route, analysis) ==
    IF route.type = "function_call"
    THEN IF route.function \in DispatchNames
         THEN IF route.function \in SplatsParams
                   /\ BindError(route.function, route.parameters) # None
              THEN [response_text |-> ErrorText(BindError(route.function, route.parameters)),
                    df_out |-> NoTable]
              ELSE CASE analysis = "raise" ->
                          [response_text |-> ErrorText(ValueErrorText), df_out |-> NoTable]
                     [] analysis = "rows" ->
                          [response_text |-> SummaryText(SampleRows),
                           df_out |-> Table(SampleRows)]
                     [] OTHER ->
                          [response_text |-> OrElse(route.response, NoResults),
                           df_out |-> Table(0)]
         ELSE [response_text |-> OrElse(route.response, NoResults), df_out |-> NoTable]
    ELSE IF route.type = "natural_response"
    THEN [response_text |-> OrElse(route.response, CouldNotRoute), df_out |-> NoTable]
    ELSE [response_text |-> EmptyText, df_out |-> NoTable]

\* status="ok" if the mark is not in response_text else "error"
Status(text) == IF HasErrorMark(text) THEN "error" ELSE "ok"

\* rows=(len(df_out) if df_out is not None else None), as csv writes it
RowsCell(t) == IF t.none THEN EmptyText ELSE IntToStr(t.len)

\* the arguments of the log_event call of line 520
LogCall(q, route, out) ==
    [none |-> FALSE, question |-> q, status |-> Status(out.response_text),
     route_type |-> route.type, func |-> route.function, rows |-> RowsCell(out.df_out)]

TelemetryHeader == <<"timestamp", "question", "status", "route_type", "function", "rows">>

\* datetime.now(datetime.UTC): datetime is the class imported at line 6,
\* which has no attribute UTC, so building the data row raises
TimestampRaises == TRUE

\* the data row of lines 35-42
DataRow(call) ==
    <<"timestamp", call.question, call.status, call.route_type, call.func, call.rows>>

\* log_event: the header on a new file, then the data row; an exception
\* leaves the function through "except Exception: pass"
log_event(file, call) ==
    LET opened == IF file.exists THEN file.rows ELSE <<TelemetryHeader>>
    IN  [exists |-> TRUE,
         rows |-> IF TimestampRaises THEN opened ELSE Append(opened, DataRow(call))]

\* the tuple appended at line 517
TurnOf(q, text) == [isPair |-> TRUE, user |-> q, assistant |-> text]

\* mutant: an interaction that ended in an error leaves no turn
AppendedUnlessError(h, q, text) ==
    IF HasErrorMark(text) THEN h ELSE Append(h, TurnOf(q, text))

\* line 517: st.session_state.history.append((user_input, response_text))
Appended(h, q, text) == Append(h, TurnOf(q, text))

\* lines 516-522 after the dispatch: the locals, the log_event call and the file
Processed(q, route, analysis) ==
    LET out == Dispatch(route, analysis)
    IN  /\ response_text' = out.response_text
        /\ df_out' = out.df_out
        /\ logged' = LogCall(q, route, out)
        /\ telemetry' = log_event(telemetry, LogCall(q, route, out))

\* ------------------------------------------- the dispatcher on its own
\* function names of the decisions handed to the dispatcher
DispatchedNames ==
    {KnownName, "peak_hours_for_large_groups", "group_size_by_day_of_week", UnknownName}

\* an object that names the required parameter and an undeclared one
ArgsUndeclared == JsonDict({<<"age_group", "18-24">>, <<"city", "Austin">>})

\* values of a decision's "parameters"
ArgValues == {ParseArgs(a) : a \in Payloads} \cup {ArgsUndeclared}

\* decisions handed to the dispatcher for question q
DispatchDecisions(q) ==
    {FunctionCallDecision(q, n, a) : n \in DispatchedNames, a \in ArgValues}
      \cup {NaturalDecision(q, c) : c \in Contents}
      \cup {_structured_error(NoClientThought, Unavailable)}
      \cup {_structured_error(RouterErrorThought(e), Apology) : e \in Errors}

\* telemetry.csv as an earlier session left it
HeaderOnly == [exists |-> TRUE, rows |-> <<TelemetryHeader>>]

\* line 449: route has returned a decision for the submitted question
InitDispatch ==
    /\ client = TRUE
    /\ _route_cache = EmptyCache
    /\ pc = "routed"
    /\ user_question \in Questions
    /\ conversation_history \in SeqsUpTo({Turn1}, 1)
    /\ cache_key = EmptyText
    /\ messages = <<>>
    /\ attempt = 0
    /\ last_err = None
    /\ response = NoResponse
    /\ sleeps = <<>>
    /\ call_log = <<>>
    /\ result \in DispatchDecisions(user_question)
    /\ raised = None
    /\ ncalls = 1
    /\ registry = FUNCTION_REGISTRY
    /\ functions = <<>>
    /\ callers = [t \in Callers |-> IdleCaller]
    /\ clock = 0
    /\ history = conversation_history
    /\ user_input = user_question
    /\ rerun = FALSE
    /\ event = "rerun"
    /\ response_text = EmptyText
    /\ df_out = NoTable
    /\ logged = NotLogged
    /\ telemetry \in {NoFile, HeaderOnly}
    /\ submitted = 1
    /\ runs = 1
    /\ span_keys = {}

\* lines 449-522 for the decision in hand
ProcessDecision(analysis) ==
    /\ pc = "routed"
    /\ pc' = "done"
    /\ Processed(user_input, result, analysis)
    /\ history' = Appended(history, user_input, response_text')
    /\ UNCHANGED <<client, _route_cache, user_question, conversation_history,
                   cache_key, messages, attempt, last_err, response, sleeps,
                   call_log, result, raised, ncalls, registry, functions,
                   user_input, rerun, event, submitted, runs, span_keys,
                   raceVars>>

NextDispatch == \E analysis \in Analyses : ProcessDecision(analysis)

SpecDispatch == InitDispatch /\ [][NextDispatch]_vars

\* ------------------------------------------------------------ the session
Q_overview == <<"Show me a data overview of the rideshare patterns">>

\* how the external service ends a route call: the error every attempt
\* raised, or the response an attempt returned
Raising(e) == [raises |-> TRUE, e |-> e, r |-> NoChoices]
Returning(r) == [raises |-> FALSE, e |-> None, r |-> r]
Outcomes ==
    {Raising("Request timed out."),
     Returning(FreeText(Reply)),
     Returning(Selected(KnownName, ArgsObject, NoneText)),
     Returning(Selected(KnownName, ArgsArray, NoneText))}

\* the decision of a route call that missed the cache
Decide(q, out) ==
    IF out.raises THEN _structured_error(RouterErrorThought(out.e), Apology)
    ELSE IF ~out.r.has_choice
         THEN _structured_error(RouterErrorThought(IndexErrorText), Apology)
    ELSE Interpret(q, out.r)

\* line 442: one whole call of the router
RouteCall(q, h, out) ==
    /\ ncalls' = ncalls + 1
    /\ user_question' = q
    /\ conversation_history' = h
    /\ pc' = "returned"
    /\ UNCHANGED <<client, messages, attempt, last_err, response, sleeps,
                   call_log, raised>>
    /\ IF ClientMissing
       THEN /\ result' = _structured_error(NoClientThought, Unavailable)
            /\ cache_key' = EmptyText
            /\ _route_cache' = _route_cache
       ELSE /\ cache_key' = CacheKey(q, h)
            /\ IF cache_key' \in DOMAIN _route_cache
               THEN /\ result' = _route_cache[cache_key']
                    /\ _route_cache' = _route_cache
               ELSE /\ result' = Decide(q, out)
                    /\ _route_cache' = CachePut(_route_cache, cache_key', result')

\* widget interactions that start a script run
UserEvents == {"clear", "type", "suggestion", "overview", "continue", "new", "debug"}
\* those handled before line 430, each ending the run with st.rerun()
EarlyEvents == {"clear", "type", "suggestion"}
\* those that put a question into st.session_state.user_input
SubmitEvents == {"type", "suggestion", "overview", "continue", "new"}
\* those whose handler calls st.rerun()
RerunEvents == {"clear", "type", "suggestion", "continue", "new", "debug"}

\* mutant: Continue This Conversation starts over as well
ResetEventsWithContinue == {"clear", "new", "continue"}

\* handlers that assign st.session_state.history = []
ResetEvents == {"clear", "new"}

\* one run of the script from top to bottom, started by the page load, by
\* st.rerun() or by the widget interaction ev
ScriptRun(ev, q, out, analysis) ==
    /\ runs < MaxRuns
    /\ runs' = runs + 1
    /\ IF runs = 0 THEN ev = "load"
       ELSE IF rerun THEN ev = "rerun"
       ELSE ev \in UserEvents
    /\ ev = "type" => user_input = None
    /\ ev \in {"continue", "new"} => user_input # None
    /\ event' = ev
    /\ UNCHANGED <<registry, functions, raceVars>>
    /\ LET input == IF ev = "overview" THEN Q_overview ELSE user_input
           processes == ev \notin EarlyEvents /\ input # None
       IN  /\ IF processes
              THEN /\ RouteCall(input, history, out)
                   /\ Processed(input, result', analysis)
              ELSE UNCHANGED <<client, _route_cache, pc, user_question,
                               conversation_history, cache_key, messages, attempt,
                               last_err, response, sleeps, call_log, result, raised,
                               ncalls, response_text, df_out, logged, telemetry>>
           /\ history' =
                IF ev \in ResetEvents THEN <<>>
                ELSE IF processes THEN Appended(history, input, response_text')
                ELSE history
           /\ span_keys' =
                IF ev \in ResetEvents THEN {}
                ELSE IF processes /\ ~ClientMissing THEN span_keys \cup {cache_key'}
                ELSE span_keys
           /\ user_input' =
                IF ev \in {"type", "suggestion", "continue", "new"} THEN q
                ELSE input
    /\ rerun' = (ev \in RerunEvents)
    /\ submitted' = submitted + (IF ev \in SubmitEvents THEN 1 ELSE 0)

NextApp ==
    \E ev \in UserEvents \cup {"load", "rerun"}, q \in Questions,
       out \in Outcomes, analysis \in Analyses : ScriptRun(ev, q, out, analysis)

SpecApp == Init /\ [][NextApp]_vars

\* ------------------------------------------------- concurrent route calls
\* mutant: the lookup never finds the key
CachedNever(cache, key) == FALSE

\* "if cache_key in _route_cache" of line 105
Cached(cache, key) == key \in DOMAIN cache

\* lines 96-106 run by caller t: the client check and the cache lookup; on a
\* miss the caller goes on to the external call
Enter(t, q, h) ==
    /\ callers[t].pc = "idle"
    /\ clock' = clock + 1
    /\ _route_cache' = _route_cache
    /\ LET frame == [callers[t] EXCEPT !.question = q, !.history = h, !.began = clock']
       IN  callers' =
             [callers EXCEPT ![t] =
                IF ClientMissing
                THEN [frame EXCEPT !.pc = "returned", !.ended = clock',
                                   !.result = _structured_error(NoClientThought, Unavailable)]
                ELSE IF Cached(_route_cache, CacheKey(q, h))
                THEN [frame EXCEPT !.pc = "returned", !.ended = clock',
                                   !.key = CacheKey(q, h),
                                   !.result = _route_cache[CacheKey(q, h)]]
                ELSE [frame EXCEPT !.pc = "calling", !.key = CacheKey(q, h)]]
    /\ UNCHANGED <<client, pc, user_question, conversation_history, cache_key,
                   messages, attempt, last_err, response, sleeps, call_log,
                   result, raised, ncalls, registry, functions, appVars>>

\* lines 154-206 run by caller t: its external call ends as out says, the
\* decision is stored under the caller's key and returned
Leave(t, out) ==
    /\ callers[t].pc = "calling"
    /\ clock' = clock + 1
    /\ LET decision == Decide(callers[t].question, out)
       IN  /\ _route_cache' = CachePut(_route_cache, callers[t].key, decision)
           /\ callers' =
                [callers EXCEPT ![t] =
                   [@ EXCEPT !.pc = "returned", !.ended = clock',
                             !.result = decision, !.external = 1]]
    /\ UNCHANGED <<client, pc, user_question, conversation_history, cache_key,
                   messages, attempt, last_err, response, sleeps, call_log,
                   result, raised, ncalls, registry, functions, appVars>>

NextRace ==
    \/ \E t \in Callers, q \in Questions, h \in SeqsUpTo(Turns, MaxHistory) : Enter(t, q, h)
    \/ \E t \in Callers, out \in Outcomes : Leave(t, out)

\* two sessions of one process, each making one route call, their steps
\* interleaved in any order
SpecRace == Init /\ [][NextRace]_vars

\* ================================================================= claims
Returned == pc = "returned"

\* the current call returned a decision taken from the cache
CacheHit == Returned /\ ~ClientMissing /\ call_log = <<>>

\* every external call of the current call so far raised
AllRaised == \A i \in 1..Len(call_log) : call_log[i] \in Errors

\* the external call of the current call returned a response with a choice
GotMessage == response # NoResponse /\ response.has_choice

\* a decision as the caller expects it: all seven fields, a kind, and a
\* function name exactly when the kind is function_call
WellFormed(d) ==
    /\ DOMAIN d = DecisionFields
    /\ d.type \in {"function_call", "natural_response"}
    /\ (d.type = "function_call") = (d.function # None)
    /\ d.confidence \in {ConfFunctionCall, ConfNatural, ConfError}
    /\ d.response # EmptyText
    /\ d.response # NoneText

\* C1: a route call that has returned has returned a well-formed decision,
\* never None, and no exception has left it, whatever the external call did
\* (returned a message, raised on every attempt, returned no choices, named
\* an unknown function, sent unparseable arguments).
C1_RouteTotal ==
    /\ raised = None
    /\ Returned => result # NoDecision /\ WellFormed(result)

\* C1 witness: the external call returned a response with no choices and the
\* call still returned a decision
C1_Witness ==
    /\ Returned
    /\ response = NoChoices
    /\ result # NoDecision
    /\ result.type = "natural_response"

\* C2: with the client available, a route call with the question and the
\* history of the call that returned just before it returns at once with the
\* same decision, makes no external call, sleeps never and leaves the cache
\* as it was, its key being in the cache.
C2_Idempotent ==
    [][ ( /\ Returned
          /\ ~ClientMissing
          /\ ncalls' = ncalls + 1
          /\ user_question' = user_question
          /\ conversation_history' = conversation_history )
        => ( /\ pc' = "returned"
             /\ result' = result
             /\ call_log' = <<>>
             /\ sleeps' = <<>>
             /\ _route_cache' = _route_cache
             /\ cache_key' \in DOMAIN _route_cache ) ]_vars

\* C2 witness: the second call returned a function_call decision from the
\* cache, and that decision was built for this very question with the one
\* history of length 0
C2_Witness ==
    /\ CacheHit
    /\ ncalls = 2
    /\ conversation_history = <<>>
    /\ result.type = "function_call"
    /\ result.thought.question = user_question

\* C3: when the model names a function that is no key of the catalog the
\* decision returned and cached is a natural_response without a function
\* name; every function_call decision returned or cached names a key of
\* FUNCTION_REGISTRY.
C3_UnknownFunctionGuard ==
    /\ ( Returned /\ GotMessage /\ response.function_call
         /\ response.name \notin RegistryKeys )
       => ( /\ result.type = "natural_response"
            /\ result.function = None
            /\ cache_key \in DOMAIN _route_cache
            /\ _route_cache[cache_key] = result )
    /\ ( Returned /\ result.type = "function_call" )
       => result.function \in RegistryKeys
    /\ \A k \in DOMAIN _route_cache :
         _route_cache[k].type = "function_call"
           => _route_cache[k].function \in RegistryKeys

\* C3 witness: the model named book_a_ride and the call returned
C3_Witness ==
    /\ Returned
    /\ GotMessage
    /\ response.function_call
    /\ response.name = UnknownName
    /\ result.type = "natural_response"

\* C4: with the client unset a route call never reaches the external call:
\* it returns a natural_response of confidence 0.1 whose rationale says the
\* client is not initialized, with no call, no retry and no sleep.
C4_FallbackSafety ==
    ~client =>
      /\ pc # "calling"
      /\ call_log = <<>>
      /\ sleeps = <<>>
      /\ attempt = 0
      /\ Returned =>
           /\ result.type = "natural_response"
           /\ result.function = None
           /\ result.confidence = ConfError
           /\ result.thought = NoClientThought

\* C4 witness: a second call returned with the client unset
C4_Witness == ~client /\ Returned /\ ncalls = 2 /\ result.confidence = ConfError

\* sum of the delays slept by the current call
RECURSIVE TotalSlept(_)
TotalSlept(ss) ==
    IF ss = <<>> THEN 0 ELSE Head(ss).det + Head(ss).jitter + TotalSlept(Tail(ss))

\* C5: when the external call raises on attempts 1 and 2 and returns a
\* message on attempt 3, the route call has returned after exactly 3
\* attempts with a decision that is no failure decision and is built from
\* that message, and has slept exactly twice, for base_delay and
\* 2*base_delay plus jitter (at least 3*base_delay in all).
C5_RetryBound ==
    ( /\ Len(call_log) >= 3
      /\ call_log[1] \in Errors
      /\ call_log[2] \in Errors
      /\ call_log[3] = "ok"
      /\ GotMessage )
    => ( /\ Returned
         /\ Len(call_log) = 3
         /\ attempt = 2
         /\ result.confidence # ConfError
         /\ result.thought.question = user_question
         /\ IF response.function_call /\ response.name \in RegistryKeys
            THEN result.type = "function_call" /\ result.function = response.name
            ELSE result.type = "natural_response"
                 /\ result.response \in {response.content, Greeting}
         /\ Len(sleeps) = 2
         /\ sleeps[1].det = base_delay
         /\ sleeps[2].det = 2 * base_delay
         /\ \A i \in 1..2 : sleeps[i].jitter \in 0..JitterMax
         /\ TotalSlept(sleeps) >= 3 * base_delay )

\* C5 witness: two failed attempts, then a message naming a catalog function
C5_Witness ==
    /\ Returned
    /\ Len(call_log) = 3
    /\ call_log[1] \in Errors
    /\ call_log[2] \in Errors
    /\ call_log[3] = "ok"
    /\ GotMessage
    /\ result.type = "function_call"
    /\ Len(sleeps) = 2

\* C6: when the external call raises on all 3 attempts the route call has
\* returned a natural_response of confidence 0.1 whose rationale carries the
\* last exception's text, stored under the call's key; and a later call
\* whose key holds a failure decision returns it without any external call.
C6_FailureCached ==
    /\ []( ( /\ Len(call_log) >= max_retries
             /\ \A i \in 1..max_retries : call_log[i] \in Errors )
           => ( /\ Returned
                /\ Len(call_log) = max_retries
                /\ result.type = "natural_response"
                /\ result.confidence = ConfError
                /\ result.thought = RouterErrorThought(call_log[max_retries])
                /\ cache_key = Lower(Strip(user_question)) \o <<"_">>
                                 \o IntToStr(Len(conversation_history))
                /\ cache_key \in DOMAIN _route_cache
                /\ _route_cache[cache_key] = result ) )
    /\ [][ ( /\ ncalls' = ncalls + 1
             /\ ~ClientMissing
             /\ \E k \in DOMAIN _route_cache :
                  /\ _route_cache[k].confidence = ConfError
                  /\ k = Lower(Strip(user_question')) \o <<"_">>
                           \o IntToStr(Len(conversation_history')) )
           => ( /\ pc' = "returned"
                /\ call_log' = <<>>
                /\ result'.confidence = ConfError
                /\ result' = _route_cache[cache_key']
                /\ _route_cache' = _route_cache ) ]_vars

\* C6 witness: the second call got the failure decision of the first from
\* the cache
C6_Witness ==
    /\ CacheHit
    /\ ncalls = 2
    /\ result.confidence = ConfError
    /\ result.thought.detail \in Errors

\* C7: the key is lowercase(trim(question)) + "_" + len(history) in decimal,
\* and any other call gets the same key exactly when its trimmed, lower-cased
\* question and its history length are the same.
C7_CacheKey ==
    (pc = "keyed") =>
      /\ cache_key = Lower(Strip(user_question)) \o <<"_">>
                       \o IntToStr(Len(conversation_history))
      /\ \A q2 \in SeqsUpTo(KeyAlphabet, MaxQLen), n2 \in 0..MaxKeyTurns :
           (CacheKey(q2, HistoryOfLen(n2)) = cache_key)
             <=> ( /\ Lower(Strip(q2)) = Lower(Strip(user_question))
                   /\ n2 = Len(conversation_history) )

\* C7 witness: the key of a question that ends in "_1", asked with a history
\* of 10 turns
C7_Witness ==
    /\ pc = "keyed"
    /\ user_question = <<"_", "1">>
    /\ Len(conversation_history) = 10
    /\ cache_key = <<"_", "1", "_", "1", "0">>

DecisionShape(d) ==
    /\ DOMAIN d = DecisionFields
    /\ \/ /\ d.type = "function_call"
          /\ d.function # None
          /\ d.confidence = ConfFunctionCall
       \/ /\ d.type = "natural_response"
          /\ d.function = None
          /\ d.parameters = EmptyDict
          /\ d.confidence \in {ConfNatural, ConfError}
    /\ d.response # EmptyText
    /\ d.response # NoneText
    /\ d.suggestions # <<>>

\* the current call went through a failure path: no client, the retries
\* exhausted, or an exception while reading the response
FailurePath ==
    \/ ClientMissing
    \/ Len(call_log) = max_retries /\ AllRaised
    \/ response # NoResponse /\ ~response.has_choice

\* C8: every decision returned or cached is a function_call with a function
\* name and confidence 0.9, or a natural_response with no function, empty
\* parameters and confidence 0.8 or 0.1, with a non-empty response text and
\* a non-empty suggestions list; a call that computes its decision gives it
\* confidence 0.1 exactly on a failure path, and a cached decision of
\* confidence 0.1 is one the exception handler built.
C8_DecisionShape ==
    /\ Returned => DecisionShape(result)
    /\ \A k \in DOMAIN _route_cache : DecisionShape(_route_cache[k])
    /\ (Returned /\ ~CacheHit) => ((result.confidence = ConfError) <=> FailurePath)
    /\ \A k \in DOMAIN _route_cache :
         _route_cache[k].confidence = ConfError
           => /\ _route_cache[k].thought.template = "GPT Router v3 Error: {e}"
              /\ _route_cache[k].thought.detail \in Errors \cup {IndexErrorText}

\* C8 witness: the cache holds a function_call decision and a failure
\* decision
C8_Witness ==
    /\ Returned
    /\ \E k1, k2 \in DOMAIN _route_cache :
         /\ _route_cache[k1].confidence = ConfFunctionCall
         /\ _route_cache[k2].confidence = ConfError

\* C9: when the model's message selects no function the call returns a
\* natural_response of confidence 0.8 whose text is the model's reply, or the
\* greeting when the reply is None or empty, with suggestions, and caches it
\* under its key.
C9_Conversational ==
    ( Returned /\ GotMessage /\ ~response.function_call )
    => ( /\ result.type = "natural_response"
         /\ result.function = None
         /\ result.confidence = ConfNatural
         /\ result.response =
              (IF response.content \in {NoneText, EmptyText}
               THEN Greeting ELSE response.content)
         /\ result.response # EmptyText
         /\ result.suggestions # <<>>
         /\ cache_key \in DOMAIN _route_cache
         /\ _route_cache[cache_key] = result )

\* C9 witness: the model replied with an empty text and the greeting was
\* returned
C9_Witness ==
    /\ Returned
    /\ GotMessage
    /\ ~response.function_call
    /\ response.content = EmptyText
    /\ result.response = Greeting

Min(a, b) == IF a < b THEN a ELSE b

\* the i-th of the last w entries of h
Recent(h, w, i) == h[Len(h) - w + i]

\* C10: the request is the system instruction, then the pairs among the
\* last 6 history entries in their order, each as a user message followed
\* at once by its assistant message, then the question as the last user
\* message; for a history of pairs that is 2 + 2*min(6, len(history))
\* messages, and no older turn is sent.
C10_Request ==
    (pc = "built") =>
      LET h == conversation_history
          w == Min(HistoryWindow, Len(h))
          recent == [i \in 1..w |-> Recent(h, w, i)]
          pairs == SelectSeq(recent, LAMBDA e : e.isPair)
      IN /\ messages[1] = Msg("system", SystemPrompt)
         /\ messages[Len(messages)] = Msg("user", user_question)
         /\ Len(messages) = 2 + 2 * Len(pairs)
         /\ \A i \in 1..Len(pairs) :
              /\ messages[2 * i] = Msg("user", pairs[i].user)
              /\ messages[2 * i + 1] = Msg("assistant", pairs[i].assistant)
         /\ (\A i \in 1..Len(h) : h[i].isPair)
              => Len(messages) = 2 + 2 * Min(HistoryWindow, Len(h))

\* C10 witness: a history of 7 pairs whose oldest turn differs from the
\* others and is not sent
C10_Witness ==
    /\ pc = "built"
    /\ Len(conversation_history) = 7
    /\ conversation_history[1] = Turn2
    /\ \A i \in 2..7 : conversation_history[i] = Turn1
    /\ Len(messages) = 14
    /\ messages[2] = Msg("user", Turn1.user)

\* ------------------------------------------------- arguments and schema
\* keys of an entry's "signature"
DeclaredParams(name) == {Signature(name)[i] : i \in 1..Len(Signature(name))}

\* keys of an entry's "signature" whose description says "(required)"
RequiredParams(name) ==
    CASE name = "top_dropoffs_by_age_group_and_day" -> {"age_group"}
      [] name = "peak_hours_for_large_groups" -> {"min_group_size"}
      [] name = "trips_to_specific_location" -> {"location_name"}
      [] name = "age_distribution_at_location" -> {"location_name"}
      [] name = "least_busy_locations_by_day" -> {"day"}
      [] name = "busiest_hours_by_location" -> {"location_name"}
      [] OTHER -> {}

\* a mapping that names declared parameters only and every required one
ValidArguments(name, args) ==
    /\ args.json = "object"
    /\ ArgNames(args) \subseteq DeclaredParams(name)
    /\ RequiredParams(name) \subseteq ArgNames(args)

\* C11: the arguments of every function_call decision route hands to the
\* dispatcher are a mapping validated against the selected entry's schema:
\* declared names only, required names present
C11_ArgumentsValidated ==
    (Returned /\ result # NoDecision /\ result.type = "function_call")
        => ValidArguments(result.function, result.parameters)

\* the model selected a catalog function and json.loads raised on its payload
BrokenArguments ==
    /\ GotMessage
    /\ response.function_call
    /\ response.name \in DOMAIN FUNCTION_REGISTRY
    /\ ~JsonLoads(response.arguments).ok

\* C12: when the model selects a catalog function whose argument payload
\* cannot be parsed, route returns and caches a function_call decision for
\* that function with empty arguments and confidence 0.9, never a failure
C12_MalformedArguments ==
    (Returned /\ BrokenArguments)
        => /\ raised = None
           /\ result = FunctionCallDecision(user_question, response.name, EmptyDict)
           /\ result.type = "function_call"
           /\ result.function = response.name
           /\ result.parameters = EmptyDict
           /\ result.confidence = ConfFunctionCall
           /\ cache_key \in DOMAIN _route_cache
           /\ _route_cache[cache_key] = result

C12_Witness ==
    /\ Returned
    /\ BrokenArguments
    /\ response.arguments = ArgsBroken
    /\ result.type = "function_call"
    /\ result.parameters = EmptyDict

\* the current call ended on the handler of line 200
HandlerDecision ==
    /\ Returned
    /\ ~ClientMissing
    /\ call_log # <<>>
    /\ result.confidence = ConfError

\* C13: every transient failure of a route call, a response without choices
\* included, is retried with backoff up to 3 attempts before it becomes a
\* cached failure decision
C13_TransientRetry ==
    HandlerDecision
        => /\ Len(call_log) = max_retries
           /\ Len(sleeps) >= max_retries - 1
           /\ cache_key \in DOMAIN _route_cache
           /\ _route_cache[cache_key] = result

\* the dispatcher has processed the decision in hand
Dispatched == pc = "done"

\* the chain called an analytical function and the call raised
CallRaised ==
    /\ Dispatched
    /\ result.type = "function_call"
    /\ result.function \in DispatchNames
    /\ df_out = NoTable

\* the last row of the event log is the data row of the last log_event call
RowWritten ==
    /\ logged # NotLogged
    /\ telemetry.exists
    /\ Len(telemetry.rows) >= 2
    /\ telemetry.rows[Len(telemetry.rows)] = DataRow(logged)

\* C14: an exception raised while invoking an analytical function becomes a
\* user-visible error string; the interaction appends its turn to the
\* history and is logged with status error
C14_DispatchContainment ==
    CallRaised
        => /\ HasErrorMark(response_text)
           /\ history = Append(conversation_history, TurnOf(user_input, response_text))
           /\ logged.status = "error"
           /\ RowWritten
           /\ telemetry.rows[Len(telemetry.rows)][3] = "error"

\* the chain called an analytical function, which returned an empty table
EmptyResult ==
    /\ Dispatched
    /\ result.type = "function_call"
    /\ result.function \in DispatchNames
    /\ df_out = Table(0)

\* C15: when the analytical function returns an empty table, the response
\* text shown and stored in the history is the no-results message
C15_NoResultsMessage ==
    EmptyResult
        => /\ response_text = NoResults
           /\ history[Len(history)].assistant = NoResults

\* the decision in hand names a function the chain has no branch for
UnknownDispatched ==
    /\ Dispatched
    /\ result.type = "function_call"
    /\ result.function \notin DispatchNames

\* C16: a function_call decision whose function has no implementation is
\* treated as a routing failure: an error outcome, logged with status error
C16_UnknownNameIsFailure ==
    UnknownDispatched
        => /\ HasErrorMark(response_text)
           /\ logged.status = "error"

\* C17: the history changes only by one (question, response) turn appended
\* at its end, or by a reset to empty through Clear History or Ask New
\* Question
C17_HistoryEvolution ==
    [][history' # history
         => \/ /\ history' = <<>>
               /\ event' \in {"clear", "new"}
            \/ /\ history' = Append(history, TurnOf(user_question', response_text'))
               /\ ncalls' = ncalls + 1
               /\ event' \notin {"clear", "new"}]_vars

C17_Witness ==
    /\ event = "new"
    /\ history = <<>>
    /\ ncalls = 2
    /\ Len(conversation_history) = 1

\* C18: each submitted question is routed once and makes one turn; a rerun
\* that carries no newly submitted question neither calls the router nor
\* appends a turn
C18_OneTurnPerQuestion ==
    /\ ncalls <= submitted
    /\ Len(history) <= submitted

\* C19: every processed interaction appends exactly one data row to the
\* event log, and rows already written stay
C19_Telemetry ==
    /\ ncalls = 0 => telemetry = NoFile
    /\ ncalls > 0
         => /\ Len(telemetry.rows) = 1 + ncalls
            /\ RowWritten

\* C20: function names are unique across the catalog, each entry's name is
\* its key, every parameter of an example invocation is a key of the
\* entry's signature, and route leaves the catalog as it was
C20_Catalog ==
    /\ registry = FUNCTION_REGISTRY
    /\ Cardinality(DOMAIN registry) = Len(RegistryOrder)
    /\ \A k \in DOMAIN registry : registry[k].name = k
    /\ \A a, b \in DOMAIN registry : registry[a].name = registry[b].name => a = b
    /\ \A k \in DOMAIN registry :
         \A i \in 1..Len(registry[k].example_usage) :
            \E j \in 1..Len(registry[k].signature) :
               registry[k].example_usage[i] = registry[k].signature[j]

C20_Witness ==
    /\ Returned
    /\ ncalls = 2
    /\ result.type = "function_call"
    /\ result.function \in DOMAIN registry
    /\ Len(registry[result.function].example_usage) = 2

\* the current call made no external call
NoExternalCall == call_log = <<>> /\ sleeps = <<>>

AllAttemptsFailed ==
    /\ Returned
    /\ Len(call_log) = max_retries
    /\ AllRaised

\* C25: a delay is taken only before a retry; no delay follows the final
\* failed attempt, so a call that fails on all 3 attempts sleeps exactly
\* twice, for base_delay and 2*base_delay plus jitter
C25_BackoffPlacement ==
    AllAttemptsFailed
        => /\ Len(sleeps) = max_retries - 1
           /\ \A i \in 1..Len(sleeps) :
                /\ sleeps[i].det = base_delay * 2^(i - 1)
                /\ sleeps[i].jitter \in 0..JitterMax

\* C26: after a call for question q with history h1 has returned, a call
\* for q with another history of the same length returns the decision
\* computed for h1, at once and without an external call
C26_SameLength ==
    [][ ( /\ Returned
          /\ ~ClientMissing
          /\ ncalls' = ncalls + 1
          /\ user_question' = user_question
          /\ conversation_history' # conversation_history
          /\ Len(conversation_history') = Len(conversation_history) )
        => ( /\ pc' = "returned"
             /\ result' = result
             /\ call_log' = <<>>
             /\ sleeps' = <<>>
             /\ _route_cache' = _route_cache ) ]_vars

\* C26 witness: the second call, for a history of one turn, was answered
\* from the only entry of the cache
C26_Witness ==
    /\ CacheHit
    /\ ncalls = 2
    /\ conversation_history = <<Turn2>>
    /\ Cardinality(DOMAIN _route_cache) = 1
    /\ result.type = "function_call"
    /\ result = _route_cache[cache_key]

\* C27: a cached entry is never removed or replaced; the cache changes only
\* by one new key, the key of a call that missed on it, stored with the
\* decision that call returns
C27_CacheMonotone ==
    [][ /\ \A k \in DOMAIN _route_cache :
             k \in DOMAIN _route_cache' /\ _route_cache'[k] = _route_cache[k]
        /\ _route_cache' # _route_cache
             => /\ pc = "calling"
                /\ pc' = "returned"
                /\ cache_key \notin DOMAIN _route_cache
                /\ DOMAIN _route_cache' = DOMAIN _route_cache \cup {cache_key}
                /\ _route_cache'[cache_key] = result' ]_vars

C27_Witness ==
    /\ Returned
    /\ ncalls = 2
    /\ call_log # <<>>
    /\ Cardinality(DOMAIN _route_cache) = 2
    /\ \E k \in DOMAIN _route_cache : k # cache_key /\ _route_cache[k] # result

\* C28: a route call makes at most 3 external calls, none on a cache hit or
\* without a client, and, each external call returning or raising, always
\* ends with a decision
C28_BoundedWork ==
    /\ [](/\ Len(call_log) <= max_retries
          /\ attempt <= max_retries
          /\ (Returned /\ (ClientMissing \/ CacheHit)) => call_log = <<>>
          /\ Returned => (result # NoDecision /\ raised = None))
    /\ (pc = "calling") ~> (Returned /\ result # NoDecision)

C28_Witness ==
    /\ Returned
    /\ Len(call_log) = max_retries
    /\ call_log[max_retries] = "ok"
    /\ result.type = "function_call"

\* the request has been built
Built == pc = "built"

\* the catalog declares the parameter required: its text says "(required)"
SaysRequired(desc) ==
    Contains(desc, <<"(", "r", "e", "q", "u", "i", "r", "e", "d", ")">>)

\* the catalog declares the parameter int: its text begins with "int"
SaysInt(desc) == Len(desc) >= 3 /\ SubSeq(desc, 1, 3) = <<"i", "n", "t">>

\* the names a definition lists as required
RequiredOf(def) == {def.parameters.required[i] : i \in 1..Len(def.parameters.required)}

\* C21: get_openai_functions returns one definition per catalog entry, in
\* catalog order, with the entry's name and description; a parameter is
\* listed as required iff the catalog declares it required, and its type is
\* integer exactly when the catalog declares it int
C21_CapabilitySchema ==
    Built
        => /\ Len(functions) = Len(RegistryOrder)
           /\ \A i \in 1..Len(RegistryOrder) :
                LET key == RegistryOrder[i]
                    def == functions[i]
                IN  /\ def.name = registry[key].name
                    /\ def.description = EntryDescription(key)
                    /\ DOMAIN def.parameters.properties = DeclaredParams(key)
                    /\ RequiredOf(def) \subseteq DeclaredParams(key)
                    /\ \A p \in DeclaredParams(key) :
                         /\ p \in RequiredOf(def) <=> SaysRequired(SignatureText(key, p))
                         /\ def.parameters.properties[p].type = "integer"
                              <=> SaysInt(SignatureText(key, p))

\* callers a and b have both returned from calls with one key
SameKeyCalls(a, b) ==
    /\ a # b
    /\ ~ClientMissing
    /\ callers[a].pc = "returned"
    /\ callers[b].pc = "returned"
    /\ callers[a].key = callers[b].key

\* C22: when the call of a has returned before that of b begins, b makes no
\* external call and returns a's decision, and a key sees at most one
\* external call; two calls can differ in their decisions only when they
\* overlapped, both missed and both called the external service, and the
\* cache then holds the decision written later
C22_CacheSafety ==
    \A a, b \in Callers :
        SameKeyCalls(a, b)
            => /\ callers[a].ended < callers[b].began
                    => /\ callers[b].external = 0
                       /\ callers[b].result = callers[a].result
                       /\ _route_cache[callers[a].key] = callers[a].result
               /\ callers[a].result # callers[b].result
                    => /\ callers[a].began < callers[b].ended
                       /\ callers[b].began < callers[a].ended
                       /\ callers[a].external = 1
                       /\ callers[b].external = 1
               /\ (callers[a].external = 1 /\ callers[b].external = 1
                     /\ callers[a].ended < callers[b].ended)
                    => _route_cache[callers[b].key] = callers[b].result

\* C22 witness: both callers missed, both called the external service, the
\* later write replaced the earlier one and the two hold different decisions
C22_Witness ==
    /\ SameKeyCalls("A", "B")
    /\ callers["A"].external = 1
    /\ callers["B"].external = 1
    /\ callers["A"].ended < callers["B"].ended
    /\ callers["A"].result # callers["B"].result
    /\ _route_cache[callers["A"].key] = callers["B"].result

\* the decision in hand names a catalog function
CatalogDispatched ==
    /\ Dispatched
    /\ result.type = "function_call"
    /\ result.function \in DOMAIN registry

\* the text of a TypeError raised while binding **params
BindErrors ==
    {"argument after ** must be a mapping", "got an unexpected keyword argument",
     "missing 1 required positional argument"}

\* C29: every catalog key is a key of FUNCTION_IMPLEMENTATIONS and has a
\* branch in the dispatch chain; the names of its signature are exactly the
\* keyword parameters of the function the branch calls; a function with an
\* empty signature is called with the dataset only, whatever arguments the
\* decision carries
C29_DispatchCoverage ==
    /\ \A k \in DOMAIN registry :
         /\ k \in ImplementationKeys
         /\ k \in DispatchNames
         /\ k \in SplatsParams <=> Signature(k) # <<>>
         /\ k \in SplatsParams => DeclaredParams(k) = Parameters(k)
    /\ (CatalogDispatched /\ Signature(result.function) = <<>>)
         => /\ \A i \in 1..Len(response_text) : response_text[i] \notin BindErrors
            /\ \E analysis \in Analyses :
                 /\ response_text =
                      Dispatch([result EXCEPT !.parameters = EmptyDict], analysis).response_text
                 /\ df_out =
                      Dispatch([result EXCEPT !.parameters = EmptyDict], analysis).df_out
    /\ (CatalogDispatched /\ ValidArguments(result.function, result.parameters))
         => \A i \in 1..Len(response_text) : response_text[i] \notin BindErrors

\* C29 witness: a function without parameters was called although the
\* decision carried a JSON array as arguments, and returned a table
C29_Witness ==
    /\ CatalogDispatched
    /\ result.function = "group_size_by_day_of_week"
    /\ result.parameters.json = "array"
    /\ df_out = Table(SampleRows)

\* C30: between two resets of the history every route call of the session is
\* passed the history as it stands, the interaction it belongs to appends
\* one turn before the next call, and the key the call computes was computed
\* by no earlier call since the last reset; so a call that finds its key in
\* the cache finds an entry written before that reset
C30_KeysNeverRepeat ==
    [][ncalls' = ncalls + 1
         => /\ conversation_history' = history
            /\ event' \notin {"clear", "new"} => Len(history') = Len(history) + 1
            /\ ~ClientMissing
                 => /\ cache_key' \notin span_keys
                    /\ span_keys' \in {{}, span_keys \cup {cache_key'}}
                    /\ Cardinality(span_keys) = Len(history)]_vars

\* C30 witness: the same question was routed twice in one span, under two
\* different keys, the second call with a history of one turn
C30_Witness ==
    /\ ~ClientMissing
    /\ ncalls = 2
    /\ Cardinality(span_keys) = 2
    /\ Len(conversation_history) = 1
    /\ conversation_history[1].user = user_question
    /\ cache_key \in span_keys

====
